---- MODULE Spec2Model ----
(***************************************************************************)
(* A model of the adt-match extraction pass of Bend                        *)
(* (src/src/term/transform/extract_adt_matches.rs) and of the package      *)
(* loader of src/src/imports.rs.                                           *)
(*                                                                         *)
(* Terms are records [tag, nam, pats, kids]:                               *)
(*   Var/Ref/Lnk/Num/Str/Era/Err   leaves (nam: the name, if any)          *)
(*   Lam/Chn                       nam = the bound variable, kids = <<bod>>*)
(*   App/Let/Dup/Tup/Sup/Opx       kids = <<fst, snd>>                     *)
(*   Mat                           nam = the scrutinee variable,           *)
(*                                 pats[i], kids[i] = pattern and body of  *)
(*                                 the i-th arm                            *)
(* Patterns are records [k, nam], k in Var/Ctr/Num/Tup.                    *)
(* Types are records [k, adt], k in None/Any/Num/Tup/Adt.                  *)
(***************************************************************************)
EXTENDS Integers, Sequences, FiniteSets, TLC

\* Bounds of the model.
MaxSize == 5      \* greatest weight of a Book
MaxPats == 3      \* longest sequence of patterns given to infer_match_type
MaxPkgs == 3      \* number of distinct package names
MaxLoads == 4     \* number of calls to DefaultLoader::load
MaxImports == 2   \* number of calls to Imports::add_import

VARIABLES
  book,       \* Book.defs: the definition table, in insertion order
  book0,      \* the Book's definition table before the first call
  book1,      \* the Book's definition table when the first call returned
  new_defs,   \* the local new_defs of the last call, as it was at return
  warnings,   \* the caller's warnings list
  result,     \* what the last call returned: [kind, msg]
  calls,      \* number of calls of Book::extract_adt_matches made
  pats_in,    \* infer_match_type: the patterns given
  inferred,   \* infer_match_type: the value returned
  loaded,     \* DefaultLoader.loaded
  load_log,   \* the calls of DefaultLoader::load so far: [name, fn_ok, ret]
  imports,    \* Imports: [names, map, pkgs]
  local_path, \* DefaultLoader.local_path is Some(..)
  import_log  \* what the calls of add_import and load_imports returned

vars == <<book, book0, book1, new_defs, warnings, result, calls,
          pats_in, inferred, loaded, load_log, imports, local_path, import_log>>

----------------------------------------------------------------------------
\* The constructor table of the Book (Book.ctrs): constructor -> adt.
ctrs == [c \in {"Nil", "Cons", "Some"} |->
           IF c = "Some" THEN "Option" ELSE "List"]

PVar(n) == [k |-> "Var", nam |-> n]
PCtr(n) == [k |-> "Ctr", nam |-> n]
PNum    == [k |-> "Num", nam |-> "0"]
PTup    == [k |-> "Tup", nam |-> "(a, b)"]

TNone   == [k |-> "None", adt |-> ""]
TAny    == [k |-> "Any", adt |-> ""]
TNum    == [k |-> "Num", adt |-> ""]
TTup    == [k |-> "Tup", adt |-> ""]
TAdt(a) == [k |-> "Adt", adt |-> a]

\* Pattern::to_type
to_type(pat) ==
  IF pat.k = "Var" THEN TAny
  ELSE IF pat.k = "Num" THEN TNum
  ELSE IF pat.k = "Tup" THEN TTup
  ELSE TAdt(ctrs[pat.nam])

\* Display of a Type, as it appears in the mismatch message.
TypeDisplay(t) ==
  IF t.k = "Adt" THEN "Named(" \o t.adt \o ")"
  ELSE IF t.k = "Tup" THEN "Tuple"
  ELSE IF t.k = "Num" THEN "Numeric"
  ELSE IF t.k = "Any" THEN "Any"
  ELSE "Unknown"

\* MatchError::Infer(format!("Type mismatch. Found '{}' expected {}.", new, old))
InferMsg(new, old) ==
  "Type mismatch. Found '" \o TypeDisplay(new) \o "' expected "
    \o TypeDisplay(old) \o "."

\* infer_match_arm without its arm (Type::Any, _) => (): a variable pattern
\* after a pattern of another shape is a mismatch.
infer_match_arm_any_mismatches(new, old) ==
  IF old.k = "None" THEN [ok |-> TRUE, ty |-> new, msg |-> ""]
  ELSE IF old.k = "Any" THEN [ok |-> TRUE, ty |-> old, msg |-> ""]
  ELSE IF new.k = old.k /\ new.adt = old.adt THEN [ok |-> TRUE, ty |-> old, msg |-> ""]
  ELSE [ok |-> FALSE, ty |-> old, msg |-> InferMsg(new, old)]

\* infer_match_arm without the guard on the adt names: two constructors
\* of different adts unify.
infer_match_arm_any_adt(new, old) ==
  IF old.k = "None" THEN [ok |-> TRUE, ty |-> new, msg |-> ""]
  ELSE IF old.k = "Any" \/ new.k = "Any" THEN [ok |-> TRUE, ty |-> old, msg |-> ""]
  ELSE IF new.k = old.k THEN [ok |-> TRUE, ty |-> old, msg |-> ""]
  ELSE [ok |-> FALSE, ty |-> old, msg |-> InferMsg(new, old)]

\* One turn of the loop of infer_match_type: the match on (new_type, match_type).
\* Returns [ok, ty, msg]: the new match_type, or the error.
infer_match_arm(new, old) ==
  IF old.k = "None" THEN [ok |-> TRUE, ty |-> new, msg |-> ""]
  ELSE IF old.k = "Any" THEN [ok |-> TRUE, ty |-> old, msg |-> ""]
  ELSE IF new.k = "Any" THEN [ok |-> TRUE, ty |-> old, msg |-> ""]
  ELSE IF new.k = "Tup" /\ old.k = "Tup" THEN [ok |-> TRUE, ty |-> old, msg |-> ""]
  ELSE IF new.k = "Num" /\ old.k = "Num" THEN [ok |-> TRUE, ty |-> old, msg |-> ""]
  ELSE IF new.k = "Adt" /\ old.k = "Adt" /\ new.adt = old.adt
    THEN [ok |-> TRUE, ty |-> old, msg |-> ""]
  ELSE [ok |-> FALSE, ty |-> old, msg |-> InferMsg(new, old)]

RECURSIVE InferFrom(_, _, _)
InferFrom(pats, i, match_type) ==
  IF i > Len(pats) THEN [ok |-> TRUE, ty |-> match_type, msg |-> ""]
  ELSE LET r == infer_match_arm(to_type(pats[i]), match_type)
       IN  IF r.ok THEN InferFrom(pats, i + 1, r.ty) ELSE r

\* infer_match_type: Ok(type) as [ok |-> TRUE, ty], Err(Infer(msg)) as [ok |-> FALSE, msg].
infer_match_type(pats) == InferFrom(pats, 1, TNone)

----------------------------------------------------------------------------
\* Terms.
Leaf(tag, n)   == [tag |-> tag, nam |-> n, pats |-> <<>>, kids |-> <<>>]
Var(n)         == Leaf("Var", n)
Ref(n)         == Leaf("Ref", n)
ErrTerm        == Leaf("Err", "")
Lam(bod)       == [tag |-> "Lam", nam |-> "y", pats |-> <<>>, kids |-> <<bod>>]
App(fun, arg)  == [tag |-> "App", nam |-> "", pats |-> <<>>, kids |-> <<fun, arg>>]
Mat(x, ps, bs) == [tag |-> "Mat", nam |-> x, pats |-> ps, kids |-> bs]

UnaryTags  == {"Lam", "Chn"}
BinaryTags == {"App", "Let", "Dup", "Tup", "Sup", "Opx"}
LeafTags   == {"Var", "Lnk", "Num", "Str", "Ref", "Era"}

\* Term::arg_call(fun, arg): the application of fun to the variable arg.
arg_call(fun, arg) == App(fun, Var(arg))

\* format!("{def_name}$match${match_count}")
MatchName(def_name, match_count) ==
  def_name \o "$match$" \o ToString(match_count)

Rule(ps, body) == [pats |-> ps, body |-> body]
Definition(name, rules, builtin) ==
  [name |-> name, rules |-> rules, builtin |-> builtin]

\* match_to_def naming the definition by the count before its increment.
match_to_def_stale_count(matched_var, arms_pats, arms_bodies, def_name, builtin, match_count) ==
  LET rules    == [i \in 1..Len(arms_pats) |-> Rule(<<arms_pats[i]>>, arms_bodies[i])]
      new_name == MatchName(def_name, match_count - 1)
  IN  [pushed |-> Definition(new_name, rules, builtin),
       term   |-> arg_call(Ref(new_name), matched_var)]

\* match_to_def returning the match itself, wrapped in nothing: the call site
\* is not rewritten.
match_to_def_keeps_match(matched_var, arms_pats, arms_bodies, def_name, builtin, match_count) ==
  LET rules    == [i \in 1..Len(arms_pats) |-> Rule(<<arms_pats[i]>>, arms_bodies[i])]
      new_name == MatchName(def_name, match_count)
  IN  [pushed |-> Definition(new_name, rules, builtin),
       term   |-> Mat(matched_var, arms_pats, arms_bodies)]

\* match_to_def: the entry it pushes to new_defs and the term it returns.
match_to_def(matched_var, arms_pats, arms_bodies, def_name, builtin, match_count) ==
  LET rules    == [i \in 1..Len(arms_pats) |-> Rule(<<arms_pats[i]>>, arms_bodies[i])]
      new_name == MatchName(def_name, match_count)
  IN  [pushed |-> Definition(new_name, rules, builtin),
       term   |-> arg_call(Ref(new_name), matched_var)]

\* The state one traversal threads through its calls: the caller's new_defs,
\* match_count and warnings, and how the traversal ended so far:
\* st = "ok", "err" (a MatchError, msg its text) or "panic".
Threaded(nd, mc, w) ==
  [new_defs |-> nd, match_count |-> mc, warnings |-> w, st |-> "ok", msg |-> ""]

MatchOnlyVars(def_name) == [kind |-> "MatchOnlyVars", def_name |-> def_name]

\* all_vars with any() for all().
all_vars_any(pats) == \E i \in 1..Len(pats) : pats[i].k = "Var"

\* arms.iter().all(|(pat, ..)| matches!(pat, Pattern::Var(..)))
all_vars(pats) == \A i \in 1..Len(pats) : pats[i].k = "Var"

RECURSIVE extract(_, _, _, _)
RECURSIVE extract_kids(_, _, _, _, _)
RECURSIVE extract_adt_matches(_, _, _, _)
RECURSIVE extract_adt_matches_kids(_, _, _, _, _)

\* Term::extract_adt_matches lifting a match as it meets it, with the arm bodies
\* as they are, and going into the arms only of the matches it leaves in place.
extract_adt_matches_top_down(t, def_name, builtin, s) ==
  IF t.tag = "Mat" THEN
    LET matched_type == infer_match_type(t.pats)
    IN  IF ~matched_type.ok
          THEN [term |-> t, s |-> [s EXCEPT !.st = "err", !.msg = matched_type.msg]]
        ELSE IF matched_type.ty.k \in {"None", "Any", "Num"}
          THEN LET r == extract_adt_matches_kids(t.kids, 1, def_name, builtin, s)
               IN  [term |-> [t EXCEPT !.kids = r.kids], s |-> r.s]
        ELSE LET n == s.match_count + 1
                 m == match_to_def(t.nam, t.pats, t.kids, def_name, builtin, n)
             IN  [term |-> m.term,
                  s |-> [s EXCEPT !.match_count = n, !.new_defs = Append(@, m.pushed)]]
  ELSE IF t.tag \in UnaryTags \cup BinaryTags THEN
    LET r == extract_adt_matches_kids(t.kids, 1, def_name, builtin, s)
    IN  [term |-> [t EXCEPT !.kids = r.kids], s |-> r.s]
  ELSE [term |-> t, s |-> s]

\* Term::extract on each of kids[i..], in order, stopping at the first failure.
extract_kids(kids, i, def_name, builtin, s) ==
  IF i > Len(kids) \/ s.st # "ok" THEN [kids |-> kids, s |-> s]
  ELSE LET r == extract(kids[i], def_name, builtin, s)
       IN  extract_kids([kids EXCEPT ![i] = r.term], i + 1, def_name, builtin, r.s)

\* Term::extract. The term is mutated in place: what was rewritten before a
\* failure stays rewritten.
extract(t, def_name, builtin, s) ==
  IF t.tag = "Mat" THEN
    LET r  == extract_kids(t.kids, 1, def_name, builtin, s)
        t1 == [t EXCEPT !.kids = r.kids]
    IN  IF r.s.st # "ok" THEN [term |-> t1, s |-> r.s]
        ELSE LET matched_type == infer_match_type(t1.pats)
             IN  IF ~matched_type.ok
                   THEN [term |-> t1,
                         s |-> [r.s EXCEPT !.st = "err", !.msg = matched_type.msg]]
                 ELSE IF matched_type.ty.k \in {"None", "Any", "Num"}
                   THEN [term |-> t1, s |-> r.s]
                 ELSE LET n == r.s.match_count + 1
                          m == match_to_def(t1.nam, t1.pats, t1.kids, def_name, builtin, n)
                      IN  [term |-> m.term,
                           s |-> [r.s EXCEPT !.match_count = n,
                                             !.new_defs = Append(@, m.pushed)]]
  ELSE IF t.tag \in UnaryTags \cup BinaryTags THEN
    LET r == extract_kids(t.kids, 1, def_name, builtin, s)
    IN  [term |-> [t EXCEPT !.kids = r.kids], s |-> r.s]
  ELSE IF t.tag \in LeafTags THEN [term |-> t, s |-> s]
  \* Term::Err => todo!(); Lst, a Mat on a non-variable, a destructuring Let: unreachable!()
  ELSE [term |-> t, s |-> [s EXCEPT !.st = "panic"]]

\* Term::extract_adt_matches on the kids from the last to the first.
RECURSIVE extract_adt_matches_kids_right_to_left(_, _, _, _, _)
extract_adt_matches_kids_right_to_left(kids, i, def_name, builtin, s) ==
  IF i > Len(kids) \/ s.st # "ok" THEN [kids |-> kids, s |-> s]
  ELSE LET j == Len(kids) + 1 - i
           r == extract_adt_matches(kids[j], def_name, builtin, s)
       IN  extract_adt_matches_kids_right_to_left([kids EXCEPT ![j] = r.term], i + 1,
                                                  def_name, builtin, r.s)

\* Term::extract_adt_matches on each of kids[i..], in order, stopping at the first failure.
extract_adt_matches_kids(kids, i, def_name, builtin, s) ==
  IF i > Len(kids) \/ s.st # "ok" THEN [kids |-> kids, s |-> s]
  ELSE LET r == extract_adt_matches(kids[i], def_name, builtin, s)
       IN  extract_adt_matches_kids([kids EXCEPT ![i] = r.term], i + 1,
                                    def_name, builtin, r.s)

\* Term::extract_adt_matches
extract_adt_matches(t, def_name, builtin, s) ==
  IF t.tag = "Mat" THEN
    LET s1 == IF all_vars(t.pats) /\ Len(t.pats) > 1
                THEN [s EXCEPT !.warnings = Append(@, MatchOnlyVars(def_name))]
                ELSE s
        r  == extract_adt_matches_kids(t.kids, 1, def_name, builtin, s1)
        t1 == [t EXCEPT !.kids = r.kids]
    IN  IF r.s.st # "ok" THEN [term |-> t1, s |-> r.s]
        ELSE extract(t1, def_name, builtin, r.s)
  ELSE IF t.tag \in UnaryTags \cup BinaryTags THEN
    LET r == extract_adt_matches_kids(t.kids, 1, def_name, builtin, s)
    IN  [term |-> [t EXCEPT !.kids = r.kids], s |-> r.s]
  ELSE IF t.tag \in LeafTags \cup {"Err"} THEN [term |-> t, s |-> s]
  \* Lst, a Mat on a non-variable, a destructuring Let: unreachable!()
  ELSE [term |-> t, s |-> [s EXCEPT !.st = "panic"]]

----------------------------------------------------------------------------
\* The Book.

\* IndexMap::insert: a present key keeps its place and takes the new value,
\* a new key goes last.
IndexMapInsert(defs, def) ==
  IF \E i \in 1..Len(defs) : defs[i].name = def.name
    THEN [i \in 1..Len(defs) |-> IF defs[i].name = def.name THEN def ELSE defs[i]]
    ELSE Append(defs, def)

\* self.defs.extend(new_defs)
RECURSIVE IndexMapExtend(_, _, _)
IndexMapExtend(defs, nd, i) ==
  IF i > Len(nd) THEN defs
  ELSE IndexMapExtend(IndexMapInsert(defs, nd[i]), nd, i + 1)

Returned(kind, msg) == [kind |-> kind, msg |-> msg]

\* The match_count a rule's traversal starts from: `&mut 0`, a fresh counter
\* for every rule of every definition.
rule_match_count(def_index, rule_index, last_count) == 0

\* The loops of Book::extract_adt_matches from rule ri of definition di on,
\* and its return. mc is the match_count the previous rule's traversal ended with.
RECURSIVE extract_rules(_, _, _, _, _, _)
extract_rules(defs, di, ri, nd, w, mc) ==
  IF di > Len(defs)
    THEN [book |-> IndexMapExtend(defs, nd, 1), new_defs |-> nd, warnings |-> w,
          result |-> Returned("Ok", "")]
  ELSE IF ri > Len(defs[di].rules) THEN extract_rules(defs, di + 1, 1, nd, w, mc)
  ELSE LET def   == defs[di]
           r     == extract_adt_matches(def.rules[ri].body, def.name, def.builtin,
                                        Threaded(nd, rule_match_count(di, ri, mc), w))
           defs1 == [defs EXCEPT ![di].rules[ri].body = r.term]
       IN  IF r.s.st = "ok"
             THEN extract_rules(defs1, di, ri + 1, r.s.new_defs, r.s.warnings,
                                r.s.match_count)
           ELSE IF r.s.st = "err"
             THEN [book |-> defs1, new_defs |-> r.s.new_defs,
                   warnings |-> r.s.warnings,
                   result |-> Returned("Err", "In definition '" \o def.name \o "': "
                                                \o r.s.msg)]
           ELSE [book |-> defs1, new_defs |-> r.s.new_defs,
                 warnings |-> r.s.warnings, result |-> Returned("Panic", "")]

\* Book::extract_adt_matches extending the table before it returns the error.
Book_extract_adt_matches_extends_on_err(defs, w) ==
  LET r == extract_rules(defs, 1, 1, <<>>, w, 0)
  IN  [r EXCEPT !.book = IF r.result.kind = "Err"
                           THEN IndexMapExtend(r.book, r.new_defs, 1) ELSE @]

\* Book::extract_adt_matches(&mut self, warnings)
Book_extract_adt_matches(defs, w) == extract_rules(defs, 1, 1, <<>>, w, 0)

----------------------------------------------------------------------------
\* The Books the pass is run on: every Book of weight at most MaxSize.
\* Rule bodies are built from the variable y, the Err placeholder, lambdas,
\* applications and matches on the variable x, under rule patterns that bind
\* x and y. The weight of a Book is the
\* number of term nodes in its rule bodies, plus one for each Err, each lambda,
\* each numeric arm pattern and each builtin definition.

AllPats  == {PVar("a"), PNum, PTup, PCtr("Nil"), PCtr("Cons"), PCtr("Some")}
BookPats == {PVar("a"), PNum, PTup, PCtr("Nil")}
PatWeight(p) == IF p.k = "Num" THEN 1 ELSE 0
FlagWeight(bi) == IF bi THEN 1 ELSE 0

\* Lists of values, built without duplicates: the image of a list, of the
\* product of two lists, and the concatenation of F(lo), ..., F(hi).
MapList(s, F(_)) == [i \in 1..Len(s) |-> F(s[i])]
ProductList(s, t, F(_, _)) ==
  [i \in 1..(Len(s) * Len(t)) |->
     F(s[((i - 1) \div Len(t)) + 1], t[((i - 1) % Len(t)) + 1])]
RECURSIVE ConcatLists(_, _, _)
ConcatLists(F(_), lo, hi) ==
  IF lo > hi THEN <<>> ELSE F(lo) \o ConcatLists(F, lo + 1, hi)

BookPatList == <<PVar("a"), PTup, PCtr("Nil"), PNum>>

\* tab[k] = [terms |-> the list of the terms of weight k,
\*           arms  |-> the list of the non-empty arm lists <<pats, bodies>> of weight k]
\* for k < n; the result is the entry for n.
TermLevel(tab, n) ==
  LET T(k) == IF k >= 1 /\ k < n THEN tab[k].terms ELSE <<>>
      A(k) == IF k >= 1 /\ k < n THEN tab[k].arms ELSE <<>>
      MkApp(a, b) == App(a, b)
      MkMat(a) == Mat("x", a[1], a[2])
      Apps(i) == ProductList(T(i), T(n - 1 - i), MkApp)
      terms ==
        (IF n = 1 THEN <<Var("y")>> ELSE IF n = 2 THEN <<ErrTerm>> ELSE <<>>)
        \o MapList(T(n - 2), Lam)
        \o ConcatLists(Apps, 1, n - 2)
        \o MapList(A(n - 1), MkMat)
      ArmsOf(j) ==
        LET p == BookPatList[j]
            One(b) == <<<<p>>, <<b>>>>
            Cons(b, a) == <<<<p>> \o a[1], <<b>> \o a[2]>>
            More(k) == ProductList(T(k), A(n - PatWeight(p) - k), Cons)
        IN  MapList(IF PatWeight(p) = 0 THEN terms ELSE T(n - PatWeight(p)), One)
            \o ConcatLists(More, 1, n - 1)
      arms == IF n >= MaxSize THEN <<>> ELSE ConcatLists(ArmsOf, 1, Len(BookPatList))
  IN  [terms |-> terms, arms |-> arms]

RECURSIVE TermTableFrom(_, _)
TermTableFrom(tab, n) ==
  IF n > MaxSize THEN tab ELSE TermTableFrom(Append(tab, TermLevel(tab, n)), n + 1)

TermTable == TermTableFrom(<<>>, 1)

\* Every rule of a Book as given binds x and y: (f x y) = body.
RulePats == <<PVar("x"), PVar("y")>>

\* rtab[k] = [rules |-> the list of the non-empty rule lists of weight k,
\*            defs  |-> the list of the non-empty lists of [rules, builtin] of weight k]
\* for k < n; the result is the entry for n.
BookLevel(rtab, n) ==
  LET R(k) == IF k >= 1 /\ k < n THEN rtab[k].rules ELSE <<>>
      D(k) == IF k >= 1 /\ k < n THEN rtab[k].defs ELSE <<>>
      OneRule(b) == <<Rule(RulePats, b)>>
      ConsRule(b, rs) == <<Rule(RulePats, b)>> \o rs
      MoreRules(k) == ProductList(TermTable[k].terms, R(n - k), ConsRule)
      rules == MapList(TermTable[n].terms, OneRule) \o ConcatLists(MoreRules, 1, n - 1)
      DefsOf(j) ==
        LET bi == (j = 1)
            OneDef(rs) == <<[rules |-> rs, builtin |-> bi]>>
            ConsDef(rs, ds) == <<[rules |-> rs, builtin |-> bi]>> \o ds
            MoreDefs(k) == ProductList(R(k), D(n - FlagWeight(bi) - k), ConsDef)
        IN  MapList(IF FlagWeight(bi) = 0 THEN rules ELSE R(n - FlagWeight(bi)), OneDef)
            \o ConcatLists(MoreDefs, 1, n - 1)
      defs == DefsOf(0) \o DefsOf(1)
  IN  [rules |-> rules, defs |-> defs]

RECURSIVE BookTableFrom(_, _)
BookTableFrom(rtab, n) ==
  IF n > MaxSize THEN rtab ELSE BookTableFrom(Append(rtab, BookLevel(rtab, n)), n + 1)

BookTable == BookTableFrom(<<>>, 1)

\* The i-th definition of a Book is named f<i>.
DefName(i) == "f" \o ToString(i)

NamedBook(ds) == [i \in 1..Len(ds) |-> Definition(DefName(i), ds[i].rules, ds[i].builtin)]

----------------------------------------------------------------------------
NoResult == Returned("none", "")
NotInferred == [kind |-> "none", ty |-> TNone, msg |-> ""]

\* The variables of the parts a specification leaves alone.
IdleBook   == /\ book = <<>> /\ book0 = <<>> /\ book1 = <<>> /\ new_defs = <<>>
              /\ warnings = <<>> /\ result = NoResult /\ calls = 0
IdleInfer  == pats_in = <<>> /\ inferred = NotInferred
IdleLoader == loaded = {} /\ load_log = <<>>
IdleImports == /\ imports = [names |-> <<>>, map |-> {}, pkgs |-> <<>>]
               /\ local_path = FALSE /\ import_log = <<>>

Init ==
  /\ \E n \in 1..MaxSize : \E i \in 1..Len(BookTable[n].defs) :
        book = NamedBook(BookTable[n].defs[i])
  /\ book0 = book
  /\ book1 = <<>>
  /\ new_defs = <<>>
  /\ warnings = <<>>
  /\ result = NoResult
  /\ calls = 0
  /\ IdleInfer
  /\ IdleLoader
  /\ IdleImports

\* A call of Book::extract_adt_matches: the first on the Book as given, the
\* second on what the first left when it returned Ok, with the same warnings list.
ExtractAdtMatches ==
  /\ calls < 2
  /\ result.kind \in {"none", "Ok"}
  /\ LET r == Book_extract_adt_matches(book, warnings)
     IN  /\ book' = r.book
         /\ new_defs' = r.new_defs
         /\ warnings' = r.warnings
         /\ result' = r.result
         /\ book1' = IF calls = 0 THEN r.book ELSE book1
  /\ calls' = calls + 1
  /\ UNCHANGED <<book0, pats_in, inferred, loaded, load_log,
                 imports, local_path, import_log>>

Next == ExtractAdtMatches

Spec == Init /\ [][Next]_vars

----------------------------------------------------------------------------
\* infer_match_type on its own: every sequence of at most MaxPats patterns.

RECURSIVE PatSeqs(_)
PatSeqs(n) ==
  IF n = 0 THEN {<<>>}
  ELSE PatSeqs(n - 1) \cup {Append(ps, p) : ps \in PatSeqs(n - 1), p \in AllPats}

\* What infer_match_type returns: Ok(ty) or Err(MatchError::Infer(msg)).
InferOutcome(pats) ==
  LET r == infer_match_type(pats)
  IN  IF r.ok THEN [kind |-> "Ok", ty |-> r.ty, msg |-> ""]
      ELSE [kind |-> "Err", ty |-> TNone, msg |-> r.msg]

InitInfer ==
  /\ pats_in \in PatSeqs(MaxPats)
  /\ inferred = NotInferred
  /\ IdleBook
  /\ IdleLoader
  /\ IdleImports

InferMatchType ==
  /\ inferred.kind = "none"
  /\ inferred' = InferOutcome(pats_in)
  /\ UNCHANGED <<book, book0, book1, new_defs, warnings, result, calls,
                 pats_in, loaded, load_log, imports, local_path, import_log>>

NextInfer == InferMatchType

SpecInfer == InitInfer /\ [][NextInfer]_vars

----------------------------------------------------------------------------
\* DefaultLoader: calls of load, with a load_fn that may fail.

PkgNames == {"v1@pkg" \o ToString(i) : i \in 1..MaxPkgs}

is_loaded(name) == name \in loaded

\* DefaultLoader::load(name), fn_ok telling whether load_fn returns Ok:
\* the value returned and the loaded set it leaves.
load(name, fn_ok) ==
  IF ~is_loaded(name)
    THEN [loaded |-> loaded \cup {name}, ret |-> IF fn_ok THEN "Ok(Some)" ELSE "Err"]
    ELSE [loaded |-> loaded, ret |-> "Ok(None)"]

InitLoader ==
  /\ loaded = {}
  /\ load_log = <<>>
  /\ IdleBook
  /\ IdleInfer
  /\ IdleImports

Load(name, fn_ok) ==
  /\ Len(load_log) < MaxLoads
  /\ LET r == load(name, fn_ok)
     IN  /\ loaded' = r.loaded
         /\ load_log' = Append(load_log, [name |-> name, fn_ok |-> fn_ok, ret |-> r.ret])
  /\ UNCHANGED <<book, book0, book1, new_defs, warnings, result, calls,
                 pats_in, inferred, imports, local_path, import_log>>

NextLoader == \E name \in PkgNames, fn_ok \in BOOLEAN : Load(name, fn_ok)

SpecLoader == InitLoader /\ [][NextLoader]_vars

----------------------------------------------------------------------------
\* Imports: calls of add_import, then one call of load_imports with a
\* DefaultLoader. A Name is the sequence of its characters. The packages
\* loaded parse to modules that import nothing.

\* str::contains(c)
contains(name, c) == \E i \in 1..Len(name) : name[i] = c

\* str::split_once(c): the parts before and after the first c, or None.
split_once(name, c) ==
  IF ~contains(name, c) THEN [some |-> FALSE, left |-> <<>>, right |-> <<>>]
  ELSE LET i == CHOOSE k \in 1..Len(name) :
                  name[k] = c /\ \A h \in 1..(k - 1) : name[h] # c
       IN  [some |-> TRUE, left |-> SubSeq(name, 1, i - 1),
            right |-> SubSeq(name, i + 1, Len(name))]

\* format!("{}/{}", src, name)
format_path(src, name) == src \o <<"/">> \o name

\* Imports::add_import: the Imports it leaves and Ok(()) or Err(import).
add_import(im, import, sub_imports) ==
  IF contains(import, "@") /\ ~contains(import, "/")
    THEN [imports |-> im, ret |-> "Err"]
    ELSE [imports |-> [im EXCEPT !.names =
                         Append(@, [src |-> import, sub_imports |-> sub_imports])],
          ret |-> "Ok"]

\* DefaultLoader::load on the loaded set ld.
load_in(ld, name, fn_ok) ==
  IF name \notin ld
    THEN [loaded |-> ld \cup {name}, ret |-> IF fn_ok THEN "Ok(Some)" ELSE "Err"]
    ELSE [loaded |-> ld, ret |-> "Ok(None)"]

\* The loop of load_multiple over sub_names[j..]: load of name/sub for each.
RECURSIVE load_subs(_, _, _, _, _, _)
load_subs(ld, name, sub_names, j, fn_ok, packages) ==
  IF j > Len(sub_names) THEN [loaded |-> ld, ret |-> "Ok", packages |-> packages]
  ELSE LET n == format_path(name, sub_names[j])
           r == load_in(ld, n, fn_ok)
       IN  IF r.ret = "Err" THEN [loaded |-> r.loaded, ret |-> "Err", packages |-> <<>>]
           ELSE load_subs(r.loaded, name, sub_names, j + 1, fn_ok,
                          IF r.ret = "Ok(Some)" THEN Append(packages, n) ELSE packages)

\* DefaultLoader::load_multiple. lp: local_path is Some; fn_ok: load_fn and
\* the read of a local file succeed. packages: the names of the packages returned.
load_multiple(ld, name, sub_names, lp, fn_ok) ==
  IF contains(name, "@") THEN
    IF sub_names = <<>>
      THEN LET r == load_in(ld, name, fn_ok)
           IN  [loaded |-> r.loaded,
                ret |-> IF r.ret = "Err" THEN "Err" ELSE "Ok",
                packages |-> IF r.ret = "Ok(Some)" THEN <<name>> ELSE <<>>]
      ELSE load_subs(ld, name, sub_names, 1, fn_ok, <<>>)
  ELSE IF lp THEN
    IF name \notin ld
      THEN [loaded |-> ld \cup {name},
            ret |-> IF fn_ok THEN "Ok" ELSE "Err",
            packages |-> IF fn_ok THEN <<name>> ELSE <<>>]
      ELSE [loaded |-> ld, ret |-> "Ok", packages |-> <<>>]
  ELSE [loaded |-> ld, ret |-> "Err", packages |-> <<>>]

\* if let Entry::Vacant(v) = self.map.entry(key) { v.insert(val) }
insert_vacant(map, key, val) ==
  IF \E e \in map : e.key = key THEN map ELSE map \cup {[key |-> key, val |-> val]}

\* for sub in sub_imports { .. }, from sub_imports[j] on.
RECURSIVE bind_subs(_, _, _, _)
bind_subs(map, src, sub_imports, j) ==
  IF j > Len(sub_imports) THEN map
  ELSE bind_subs(insert_vacant(map, sub_imports[j], format_path(src, sub_imports[j])),
                 src, sub_imports, j + 1)

\* The loop of Imports::load_imports from names[i] on, and its return.
\* parse_ok: do_parse_book succeeds on the packages loaded.
RECURSIVE load_imports_from(_, _, _, _, _, _)
load_imports_from(im, ld, i, lp, fn_ok, parse_ok) ==
  IF i > Len(im.names) THEN [imports |-> im, loaded |-> ld, ret |-> "Ok"]
  ELSE LET src         == im.names[i].src
           sub_imports == im.names[i].sub_imports
           r           == load_multiple(ld, src, sub_imports, lp, fn_ok)
       IN  IF r.ret = "Err" THEN [imports |-> im, loaded |-> r.loaded, ret |-> "Err"]
           ELSE IF r.packages # <<>> /\ ~parse_ok
             THEN [imports |-> im, loaded |-> r.loaded, ret |-> "Err"]
           ELSE LET im1 == [im EXCEPT !.pkgs = @ \o r.packages]
                IN  IF sub_imports = <<>>
                      THEN LET sp == split_once(src, "/")
                           IN  IF ~sp.some
                                 \* src.split_once('/').unwrap() on None
                                 THEN [imports |-> im1, loaded |-> r.loaded, ret |-> "Panic"]
                                 ELSE load_imports_from(
                                        [im1 EXCEPT !.map = insert_vacant(@, sp.right,
                                                              format_path(src, sp.right))],
                                        r.loaded, i + 1, lp, fn_ok, parse_ok)
                      ELSE load_imports_from(
                             [im1 EXCEPT !.map = bind_subs(@, src, sub_imports, 1)],
                             r.loaded, i + 1, lp, fn_ok, parse_ok)

\* Imports::load_imports(&mut self, loader)
load_imports(im, ld, lp, fn_ok, parse_ok) == load_imports_from(im, ld, 1, lp, fn_ok, parse_ok)

\* The import names and sub-import lists given to add_import.
ImportNames == {<<"a">>, <<"b">>, <<"a", "/", "b">>, <<"v", "@", "a">>,
                <<"v", "@", "a", "/", "b">>}
SubImportLists == {<<>>, << <<"b">> >>, << <<"b">>, <<"c">> >>}

Called(op, import, sub_imports, fn_ok, parse_ok, ret) ==
  [op |-> op, import |-> import, sub_imports |-> sub_imports,
   fn_ok |-> fn_ok, parse_ok |-> parse_ok, ret |-> ret]

LoadImportsCalled == \E i \in 1..Len(import_log) : import_log[i].op = "load_imports"

InitImports ==
  /\ imports = [names |-> <<>>, map |-> {}, pkgs |-> <<>>]
  /\ local_path \in BOOLEAN
  /\ import_log = <<>>
  /\ IdleBook
  /\ IdleInfer
  /\ IdleLoader

AddImport(import, sub_imports) ==
  /\ ~LoadImportsCalled
  /\ Len(import_log) < MaxImports
  /\ LET r == add_import(imports, import, sub_imports)
     IN  /\ imports' = r.imports
         /\ import_log' = Append(import_log,
                                 Called("add_import", import, sub_imports, TRUE, TRUE, r.ret))
  /\ UNCHANGED <<book, book0, book1, new_defs, warnings, result, calls,
                 pats_in, inferred, loaded, load_log, local_path>>

LoadImports(fn_ok, parse_ok) ==
  /\ ~LoadImportsCalled
  /\ LET r == load_imports(imports, loaded, local_path, fn_ok, parse_ok)
     IN  /\ imports' = r.imports
         /\ loaded' = r.loaded
         /\ import_log' = Append(import_log,
                                 Called("load_imports", <<>>, <<>>, fn_ok, parse_ok, r.ret))
  /\ UNCHANGED <<book, book0, book1, new_defs, warnings, result, calls,
                 pats_in, inferred, load_log, local_path>>

NextImports ==
  \/ \E import \in ImportNames, sub_imports \in SubImportLists :
       AddImport(import, sub_imports)
  \/ \E fn_ok, parse_ok \in BOOLEAN : LoadImports(fn_ok, parse_ok)

SpecImports == InitImports /\ [][NextImports]_vars

----------------------------------------------------------------------------
\* What the claims are stated with.

Ran1   == calls = 1
RanOk1 == calls = 1 /\ result.kind = "Ok"

\* The definition stored under a key of a definition table (the table's keys are unique).
HasKey(defs, key) == \E i \in 1..Len(defs) : defs[i].name = key
Lookup(defs, key) == defs[CHOOSE i \in 1..Len(defs) : defs[i].name = key]
Keys(defs) == {defs[i].name : i \in 1..Len(defs)}

\* The places (definition, rule) of a definition table.
Places(defs) == {<<di, ri>> : di \in 1..Len(defs), ri \in 1..MaxSize} \cap
                {pl \in (1..Len(defs)) \X (1..MaxSize) : pl[2] <= Len(defs[pl[1]].rules)}
BodyAt(defs, pl) == defs[pl[1]].rules[pl[2]].body

\* The sub-terms of a term, itself included, as a list in post-order.
RECURSIVE SubTerms(_)
SubTerms(t) ==
  LET Sub(i) == SubTerms(t.kids[i])
  IN  ConcatLists(Sub, 1, Len(t.kids)) \o <<t>>

\* A match the pass lifts when no inference fails: its first arm has a tuple
\* or a constructor pattern.
Liftable(t) == t.tag = "Mat" /\ t.pats[1].k \in {"Tup", "Ctr"}

\* The single bottom-up rewrite of a rule body of definition d: every arm body
\* first, left to right, then the match itself; acc = [k, defs] is the number
\* of matches lifted so far in this body and the definitions made of them.
RECURSIVE Lift(_, _, _, _)
RECURSIVE LiftKids(_, _, _, _, _)
LiftKids(kids, i, d, bi, acc) ==
  IF i > Len(kids) THEN [kids |-> kids, acc |-> acc]
  ELSE LET r == Lift(kids[i], d, bi, acc)
       IN  LiftKids([kids EXCEPT ![i] = r.term], i + 1, d, bi, r.acc)
Lift(t, d, bi, acc) ==
  LET r == LiftKids(t.kids, 1, d, bi, acc)
  IN  IF Liftable(t)
        THEN LET k    == r.acc.k + 1
                 name == d \o "$match$" \o ToString(k)
                 def  == [name |-> name, builtin |-> bi,
                          rules |-> [i \in 1..Len(t.pats) |->
                                       [pats |-> <<t.pats[i]>>, body |-> r.kids[i]]]]
             IN  [term |-> App(Ref(name), Var(t.nam)),
                  acc  |-> [k |-> k, defs |-> Append(r.acc.defs, def)]]
        ELSE [term |-> [t EXCEPT !.kids = r.kids], acc |-> r.acc]

LiftBody(defs, pl) ==
  Lift(BodyAt(defs, pl), defs[pl[1]].name, defs[pl[1]].builtin, [k |-> 0, defs |-> <<>>])

\* The definitions lifted out of the rules of defs from place (di, ri) on, in order.
RECURSIVE LiftedFrom(_, _, _)
LiftedFrom(defs, di, ri) ==
  IF di > Len(defs) THEN <<>>
  ELSE IF ri > Len(defs[di].rules) THEN LiftedFrom(defs, di + 1, 1)
  ELSE LiftBody(defs, <<di, ri>>).acc.defs \o LiftedFrom(defs, di, ri + 1)

----------------------------------------------------------------------------
\* C1: the names of all definitions synthesized during one run of
\* Book::extract_adt_matches are pairwise distinct, also when one definition
\* has several rules that each hold a lifted match.
C1_SynthesizedNamesDistinct ==
  \A i, j \in 1..Len(new_defs) : i # j => new_defs[i].name # new_defs[j].name

\* C2: after the pass returns Ok, the name at the call site of every lifted
\* match is a key of the definition table, and the definition under that key
\* has as its rules the arms of that same match (new_defs[i] is what the i-th
\* lifted match pushed: the name at its call site and its arms).
C2_CallSiteResolvesToOwnArms ==
  RanOk1 =>
    \A i \in 1..Len(new_defs) :
      /\ HasKey(book, new_defs[i].name)
      /\ Lookup(book, new_defs[i].name).rules = new_defs[i].rules

----------------------------------------------------------------------------
\* The shape a pattern classifies to, as the message prints it.
ShapeOf(p) ==
  IF p.k = "Var" THEN "Any"
  ELSE IF p.k = "Num" THEN "Numeric"
  ELSE IF p.k = "Tup" THEN "Tuple"
  ELSE IF p.nam = "Some" THEN "Named(Option)"
  ELSE "Named(List)"

Mismatch(found, expected) ==
  "Type mismatch. Found '" \o found \o "' expected " \o expected \o "."

IsNotVar(p) == p.k # "Var"
RemoveVars(ps) == SelectSeq(ps, IsNotVar)

Inferred == inferred.kind # "none"
OkAny == [kind |-> "Ok", ty |-> [k |-> "Any", adt |-> ""], msg |-> ""]

\* Two of the patterns classify to different shapes other than Any.
HasConflict(ps) ==
  \E i, j \in 1..Len(ps) :
    /\ IsNotVar(ps[i]) /\ IsNotVar(ps[j])
    /\ ShapeOf(ps[i]) # ShapeOf(ps[j])

\* The first pattern whose shape is neither Any nor that of the first pattern.
FirstOther(ps) ==
  CHOOSE i \in 1..Len(ps) :
    /\ ShapeOf(ps[i]) \notin {"Any", ShapeOf(ps[1])}
    /\ \A j \in 1..(i - 1) : ShapeOf(ps[j]) \in {"Any", ShapeOf(ps[1])}

\* C4 as claimed: variable patterns never constrain the inferred type, whatever
\* their position: with a non-variable pattern present, infer_match_type
\* returns what it returns for the patterns with the variable patterns removed.
C4_VarPatternsNeverConstrain ==
  (Inferred /\ RemoveVars(pats_in) # <<>>) =>
    inferred = InferOutcome(RemoveVars(pats_in))

\* C4 as amended: variable patterns after a first non-variable pattern never
\* constrain the inferred type; a first variable pattern makes the result Any
\* whatever follows.
C4_VarPatternsAfterFirst ==
  (Inferred /\ pats_in # <<>>) =>
    IF IsNotVar(pats_in[1])
      THEN inferred = InferOutcome(RemoveVars(pats_in))
      ELSE inferred = OkAny

\* A tuple pattern, then a variable pattern, then one more pattern.
C4_Witness ==
  /\ Inferred
  /\ Len(pats_in) = 3
  /\ pats_in[1].k = "Tup"
  /\ pats_in[2].k = "Var"

\* C5 as claimed: patterns of two different shapes among Tuple, Numeric,
\* Named(a), Named(b), in any order and with any other patterns around them,
\* make inference fail with an Infer error naming two conflicting shapes.
C5_ConflictAlwaysFails ==
  (Inferred /\ HasConflict(pats_in)) =>
    /\ inferred.kind = "Err"
    /\ \E i, j \in 1..Len(pats_in) :
         /\ IsNotVar(pats_in[i]) /\ IsNotVar(pats_in[j])
         /\ ShapeOf(pats_in[i]) # ShapeOf(pats_in[j])
         /\ inferred.msg = Mismatch(ShapeOf(pats_in[i]), ShapeOf(pats_in[j]))

\* C5 as amended: when the first pattern is not a variable, patterns of two
\* different shapes make inference fail with an Infer error that names the
\* first shape differing from the first pattern's (found) and the first
\* pattern's shape (expected); when the first pattern is a variable there is
\* no error and the result is Any.
C5_ConflictFailsUnlessFirstIsVar ==
  (Inferred /\ HasConflict(pats_in)) =>
    IF IsNotVar(pats_in[1])
      THEN /\ inferred.kind = "Err"
           /\ inferred.msg = Mismatch(ShapeOf(pats_in[FirstOther(pats_in)]),
                                      ShapeOf(pats_in[1]))
      ELSE inferred = OkAny

\* Constructors of two adts with a variable pattern between them.
C5_Witness ==
  /\ Inferred
  /\ Len(pats_in) = 3
  /\ pats_in[1] = [k |-> "Ctr", nam |-> "Cons"]
  /\ pats_in[2].k = "Var"
  /\ pats_in[3] = [k |-> "Ctr", nam |-> "Some"]
  /\ inferred.kind = "Err"

----------------------------------------------------------------------------
\* The matches of a term whose arm patterns are all variable binders, and
\* those of them with two or more arms.
VarOnly(t) == t.tag = "Mat" /\ \A i \in 1..Len(t.pats) : t.pats[i].k = "Var"
VarOnlyMulti(t) == VarOnly(t) /\ Len(t.pats) > 1

CountIn(t, P(_)) ==
  LET sub == SubTerms(t) IN Cardinality({i \in 1..Len(sub) : P(sub[i])})

RECURSIVE SumOver(_, _, _)
SumOver(F(_), lo, hi) == IF lo > hi THEN 0 ELSE F(lo) + SumOver(F, lo + 1, hi)

\* The number of sub-terms satisfying P in the rule bodies of a definition,
\* and in those of a list of definitions.
CountInDef(def, P(_)) ==
  LET InRule(ri) == CountIn(def.rules[ri].body, P)
  IN  SumOver(InRule, 1, Len(def.rules))
CountInDefs(defs, P(_)) ==
  LET InDef(di) == CountInDef(defs[di], P)
  IN  SumOver(InDef, 1, Len(defs))

WarningsFor(d) ==
  Cardinality({i \in 1..Len(warnings) :
                 warnings[i] = [kind |-> "MatchOnlyVars", def_name |-> d]})

\* The definitions of the Book as given, as the first call left them.
Originals == SubSeq(book, 1, Len(book0))

\* C6: a match on a variable whose arm patterns are all variable binders, at
\* any depth of a rule body, is never lifted (it stays a match, and no
\* synthesized definition has its arms); with one arm it is not warned about,
\* with two or more it is warned about exactly once, with the name of the
\* definition it is in: never more than once, and once when the pass returns Ok.
C6_VarOnlyMatches ==
  Ran1 =>
    /\ \A i \in 1..Len(warnings) :
         /\ warnings[i].kind = "MatchOnlyVars"
         /\ warnings[i].def_name \in Keys(book0)
    /\ \A di \in 1..Len(book0) :
         /\ WarningsFor(book0[di].name) <= CountInDef(book0[di], VarOnlyMulti)
         /\ result.kind = "Ok" =>
              WarningsFor(book0[di].name) = CountInDef(book0[di], VarOnlyMulti)
    /\ \A i \in 1..Len(new_defs) :
         \E j \in 1..Len(new_defs[i].rules) : new_defs[i].rules[j].pats[1].k # "Var"
    /\ result.kind = "Ok" =>
         CountInDefs(Originals, VarOnly) + CountInDefs(new_defs, VarOnly)
           = CountInDefs(book0, VarOnly)

\* The one variables-only match of the Book has two arms and sits in an arm of
\* a match that was lifted: it is warned about once.
C6_Witness ==
  /\ RanOk1
  /\ Len(warnings) = 1
  /\ CountInDefs(new_defs, VarOnlyMulti) = 1
  /\ CountInDefs(book0, VarOnly) = 1

\* C7: run again on the Book a first run returned Ok on, the pass returns Ok,
\* lifts no match, synthesizes no definition and leaves the definition table
\* as the first run left it.
C7_Idempotent ==
  calls = 2 =>
    /\ result.kind = "Ok"
    /\ new_defs = <<>>
    /\ book = book1

\* The second run is over a Book the first run lifted a match of.
C7_Witness ==
  /\ calls = 2
  /\ Len(book1) > Len(book0)
  /\ \E pl \in Places(book0) : BodyAt(book1, pl) # BodyAt(book0, pl)

\* A match whose inference fails: its first pattern is not a variable and a
\* later pattern has another shape that is not Any.
Conflicting(t) ==
  /\ t.tag = "Mat"
  /\ t.pats[1].k # "Var"
  /\ \E j \in 1..Len(t.pats) : ShapeOf(t.pats[j]) \notin {"Any", ShapeOf(t.pats[1])}
IsErrTerm(t) == t.tag = "Err"
Shapes == {"Tuple", "Numeric", "Named(List)", "Named(Option)"}

\* C8: when a match fails type inference the pass returns Err with the string
\* "In definition '<d>': <message>", d the original definition whose rule body
\* holds the failing match (the first such definition), and the definition
\* table has the keys it had before the call; and a Book with such a match
\* (and no Err placeholder) does fail so.
C8_ErrNamesDefinitionKeysKept ==
  Ran1 =>
    /\ result.kind = "Err" =>
         /\ \E di \in 1..Len(book0) :
              /\ CountInDef(book0[di], Conflicting) > 0
              /\ \A e \in 1..(di - 1) : CountInDef(book0[e], Conflicting) = 0
              /\ \E found, expected \in Shapes :
                   result.msg = "In definition '" \o book0[di].name \o "': "
                                  \o Mismatch(found, expected)
         /\ Keys(book) = Keys(book0)
         /\ Len(book) = Len(book0)
    /\ (CountInDefs(book0, Conflicting) > 0 /\ CountInDefs(book0, IsErrTerm) = 0) =>
         result.kind = "Err"

\* The second definition holds the failing match, after the first one had a
\* match lifted.
C8_Witness ==
  /\ Ran1
  /\ result.kind = "Err"
  /\ Len(new_defs) > 0
  /\ Len(book0) = 2
  /\ CountInDef(book0[1], Conflicting) = 0

\* The variables a pattern binds, and the free variables of a term.
Binders(p) ==
  IF p.k = "Var" THEN {p.nam} ELSE IF p.k = "Tup" THEN {"a", "b"} ELSE {}
RECURSIVE FreeVars(_)
FreeVars(t) ==
  IF t.tag = "Var" THEN {t.nam}
  ELSE IF t.tag = "Mat"
    THEN {t.nam} \cup UNION {FreeVars(t.kids[i]) \ Binders(t.pats[i]) : i \in 1..Len(t.kids)}
  ELSE IF t.tag = "Lam" THEN FreeVars(t.kids[1]) \ {t.nam}
  ELSE UNION {FreeVars(t.kids[i]) : i \in 1..Len(t.kids)}

\* The head of an application spine and the variables it is applied to.
RECURSIVE SpineHead(_)
SpineHead(t) == IF t.tag = "App" THEN SpineHead(t.kids[1]) ELSE t
RECURSIVE SpineArgs(_)
SpineArgs(t) ==
  IF t.tag = "App"
    THEN SpineArgs(t.kids[1]) \cup (IF t.kids[2].tag = "Var" THEN {t.kids[2].nam} ELSE {})
    ELSE {}

\* Every sub-term of the rule bodies of a list of definitions.
AllSubTerms(defs) ==
  UNION {UNION {LET sub == SubTerms(defs[di].rules[ri].body)
                IN  {sub[i] : i \in 1..Len(sub)}
                  : ri \in 1..Len(defs[di].rules)}
           : di \in 1..Len(defs)}

\* C9: the term that replaces a lifted match applies the new definition to the
\* scrutinee and then to the free variables of the arms: every variable free
\* in an arm is an argument of a call of the definition made of the match.
C9_FreeVarsPassedAtCallSite ==
  RanOk1 =>
    \A i \in 1..Len(new_defs) :
      \A j \in 1..Len(new_defs[i].rules) :
        \A v \in FreeVars(new_defs[i].rules[j].body) \ Binders(new_defs[i].rules[j].pats[1]) :
          \E t \in AllSubTerms(Originals) \cup AllSubTerms(new_defs) :
            /\ SpineHead(t) = Ref(new_defs[i].name)
            /\ v \in SpineArgs(t)

\* C10: DefaultLoader::load(name) returns Ok(None) only if an earlier
\* load(name) returned Ok(Some(..)), whatever load_fn returned in between.
C10_NoneOnlyAfterSome ==
  \A i \in 1..Len(load_log) :
    load_log[i].ret = "Ok(None)" =>
      \E j \in 1..(i - 1) :
        /\ load_log[j].name = load_log[i].name
        /\ load_log[j].ret = "Ok(Some)"

----------------------------------------------------------------------------
\* The matches a term holds, itself included, in post-order.
IsMat(t) == t.tag = "Mat"
MatchesIn(t) == SelectSeq(SubTerms(t), IsMat)

\* A match whose arm patterns infer to Tuple or Named(_).
InfersLiftable(t) ==
  LET r == infer_match_type(t.pats) IN r.ok /\ r.ty.k \in {"Tup", "Adt"}

\* The names of the definitions synthesized by the last call.
NewNames == {new_defs[i].name : i \in 1..Len(new_defs)}
CallsNew(t) == \E j \in 1..Len(SubTerms(t)) :
                 SubTerms(t)[j].tag = "Ref" /\ SubTerms(t)[j].nam \in NewNames

\* C11: bottom-up order. When a match is lifted its arm bodies have been
\* rewritten already: no rule body of a synthesized definition holds a match
\* on a variable whose arm patterns infer to Tuple or Named(_), whether the
\* pass returned Ok, returned Err or stopped in between; matches that infer
\* Unknown, Any or Numeric may stay.
C11_SynthesizedBodiesHoldNoLiftableMatch ==
  \A i \in 1..Len(new_defs) : \A ri \in 1..Len(new_defs[i].rules) :
    LET ms == MatchesIn(new_defs[i].rules[ri].body)
    IN  \A j \in 1..Len(ms) : ~InfersLiftable(ms[j])

\* A lifted match had in an arm a match that stays (it infers Any) and that
\* held a match lifted before it: the synthesized rule body holds the match
\* that stays, with a call of the definition lifted first in its arm.
C11_Witness ==
  /\ Ran1
  /\ \E i \in 1..Len(new_defs) : \E ri \in 1..Len(new_defs[i].rules) :
       LET ms == MatchesIn(new_defs[i].rules[ri].body)
       IN  \E j \in 1..Len(ms) : \E a \in 1..Len(ms[j].kids) : CallsNew(ms[j].kids[a])

----------------------------------------------------------------------------
\* The matches of a rule body that are lifted when no inference fails, in
\* post-order: a match nested in an arm before the match around it, the
\* matches of an earlier arm or a left sub-term before those of a later arm or
\* a right sub-term.
LiftedIn(defs, pl) == SelectSeq(SubTerms(BodyAt(defs, pl)), Liftable)

\* The number of matches lifted out of the rules before place (di, ri).
RECURSIVE LiftedBefore(_, _, _)
LiftedBefore(defs, di, ri) ==
  IF di = 1 /\ ri = 1 THEN 0
  ELSE IF ri = 1 THEN LiftedBefore(defs, di - 1, Len(defs[di - 1].rules) + 1)
  ELSE Len(LiftedIn(defs, <<di, ri - 1>>)) + LiftedBefore(defs, di, ri - 1)

\* C12: within one rule body of definition d the k-th match to be lifted is
\* named d$match$k, k counting from 1 in steps of 1 over the lifted matches
\* only, and the matches are lifted in post-order, left to right: when the
\* pass returns Ok, the definitions pushed for a rule body are, in order, one
\* for each lifted match of the body in post-order, the k-th named d$match$k
\* and having the patterns of the arms of the k-th such match.
C12_NumberedInPostOrder ==
  RanOk1 =>
    \A pl \in Places(book0) :
      LET ms  == LiftedIn(book0, pl)
          off == LiftedBefore(book0, pl[1], pl[2])
      IN  /\ off + Len(ms) <= Len(new_defs)
          /\ \A k \in 1..Len(ms) :
               LET def == new_defs[off + k]
               IN  /\ def.name = book0[pl[1]].name \o "$match$" \o ToString(k)
                   /\ Len(def.rules) = Len(ms[k].pats)
                   /\ \A a \in 1..Len(ms[k].pats) : def.rules[a].pats = <<ms[k].pats[a]>>

\* One rule body held three matches: two of different patterns were lifted and
\* numbered 1 and 2, one stayed and took no number.
C12_Witness ==
  /\ RanOk1
  /\ \E pl \in Places(book0) :
       LET ms == LiftedIn(book0, pl)
       IN  /\ Len(ms) = 2
           /\ ms[1].pats # ms[2].pats
           /\ Len(MatchesIn(BodyAt(book0, pl))) = 3

----------------------------------------------------------------------------
\* A variables-only match of two or more arms with, in an arm, a match whose
\* inference fails.
EnclosesConflict(t) ==
  /\ VarOnlyMulti(t)
  /\ \E a \in 1..Len(t.kids) : CountIn(t.kids[a], Conflicting) > 0

\* C13: a match on a variable has every arm body rewritten first and only then
\* its variable-patterns-only warning emitted, so the warning of a nested match
\* comes before that of the match around it: when the pass returns Err, no
\* warning is in the list for a match that has the failing match in an arm
\* (the warnings are at most those of the other variables-only matches of two
\* or more arms).
C13_WarningAfterArms ==
  (Ran1 /\ result.kind = "Err") =>
    Len(warnings) <= CountInDefs(book0, VarOnlyMulti) - CountInDefs(book0, EnclosesConflict)

----------------------------------------------------------------------------
\* The Book with every rule body put in the one arm of a match on x whose
\* pattern is a variable binder.
InArm(defs) ==
  [di \in 1..Len(defs) |->
     [defs[di] EXCEPT !.rules =
        [ri \in 1..Len(defs[di].rules) |->
           [defs[di].rules[ri] EXCEPT !.body = Mat("x", <<PVar("a")>>, <<@>>)]]]]

\* C14: an Err placeholder gets the same explicit "unsupported" outcome
\* wherever it is in a rule body: a Book with an Err placeholder is never
\* accepted with Ok, and a Book whose Err placeholders are outside every match
\* ends as the same Book does with its rule bodies put in an arm of a match.
C14_ErrPlaceholderSameEverywhere ==
  (Ran1 /\ CountInDefs(book0, IsErrTerm) > 0) =>
    /\ result.kind # "Ok"
    /\ CountInDefs(book0, IsMat) = 0 =>
         result.kind = Book_extract_adt_matches(InArm(book0), <<>>).result.kind

----------------------------------------------------------------------------
\* The references to synthesized names in the rule bodies of a definition
\* table that have no definition in it. (The Books given hold no reference:
\* every reference in a rule body was written by the pass.)
IsMatchRef(t) == t.tag = "Ref"
Dangling(defs) ==
  {t \in AllSubTerms(defs) : IsMatchRef(t) /\ ~HasKey(defs, t.nam)}

\* C15: all or nothing. Whenever Book::extract_adt_matches returns, Ok or Err,
\* every reference to a name d$match$n that it wrote into a rule body is to a
\* definition of the Book's table: after an Err no rule body is left calling
\* a synthesized definition that was never inserted.
C15_NoDanglingMatchRef ==
  (calls > 0 /\ result.kind \in {"Ok", "Err"}) => Dangling(book) = {}

----------------------------------------------------------------------------
\* The call of load_imports, when it was made.
LoadImportsCall == import_log[Len(import_log)]

\* The loader returns Ok for every import: load_fn, the reads and the parses
\* succeed, and an import without '@' finds a local path.
LoaderReturnsOk ==
  /\ LoadImportsCall.fn_ok
  /\ LoadImportsCall.parse_ok
  /\ \A i \in 1..Len(imports.names) : contains(imports.names[i].src, "@") \/ local_path

\* C16: every import add_import accepted is processed by load_imports without
\* a panic: when the loader returns Ok for the accepted imports, load_imports
\* returns Ok or Err and the name map has a binding, also for an accepted name
\* with neither '@' nor '/' and no sub-imports.
C16_AcceptedImportsNeverPanic ==
  (LoadImportsCalled /\ LoaderReturnsOk) =>
    /\ LoadImportsCall.ret \in {"Ok", "Err"}
    /\ imports.names # <<>> => imports.map # {}

====
